---- MODULE Spec2Model ----
(***************************************************************************)
(* The feed-forward neural network of src/src/FFNN.py as a state machine.  *)
(*                                                                         *)
(* Numbers are exact rationals <<numerator, denominator>> in lowest terms  *)
(* (denominator > 0); a numpy array of shape (r, c) is a sequence of r     *)
(* rows of c rationals.  Cost values are extended reals: the logarithms    *)
(* of cost() are kept symbolically, and inf / nan follow IEEE rules.       *)
(* The layer classes live in layers.py, which is not part of the source    *)
(* tree at hand; LinearLayer is modelled from the specification's layer    *)
(* contract.                                                               *)
(***************************************************************************)
EXTENDS Integers, Sequences, FiniteSets, TLC

(***************************************************************************)
(* Bounds of the model.                                                    *)
(***************************************************************************)
MaxEpochs == 2
MaxSamples == 2
MaxCalls == 3
MaxMagnitude == 10

(***************************************************************************)
(* Exact rational arithmetic.                                              *)
(***************************************************************************)
Abs(n) == IF n < 0 THEN -n ELSE n

RECURSIVE GCD(_, _)
GCD(a, b) == IF b = 0 THEN a ELSE GCD(b, a % b)

Norm(n, d) ==
    LET g == GCD(Abs(n), d)
    IN  IF n = 0 THEN <<0, 1>> ELSE <<n \div g, d \div g>>

R(n) == <<n, 1>>
Half == <<1, 2>>
RAdd(a, b) == Norm(a[1] * b[2] + b[1] * a[2], a[2] * b[2])
RNeg(a) == <<-a[1], a[2]>>
RSub(a, b) == RAdd(a, RNeg(b))
RMul(a, b) == Norm(a[1] * b[1], a[2] * b[2])
RLt(a, b) == a[1] * b[2] < b[1] * a[2]
RGt(a, b) == RLt(b, a)
RInv(a) == IF a[1] < 0 THEN <<-a[2], -a[1]>> ELSE <<a[2], a[1]>>

RECURSIVE RSum(_)
RSum(s) == IF s = <<>> THEN R(0) ELSE RAdd(s[1], RSum(Tail(s)))

(***************************************************************************)
(* Arrays: a matrix is a sequence of rows.                                 *)
(***************************************************************************)
Rows(A) == Len(A)
Cols(A) == IF A = <<>> THEN 0 ELSE Len(A[1])
Flat(A) == LET RECURSIVE F(_)
               F(k) == IF k > Len(A) THEN <<>> ELSE A[k] \o F(k + 1)
           IN  F(1)
Transpose(A) == [j \in 1..Cols(A) |-> [i \in 1..Rows(A) |-> A[i][j]]]
MatMulOk(A, B) == Cols(A) = Rows(B)
MatMul(A, B) ==
    [i \in 1..Rows(A) |->
        [j \in 1..Cols(B) |->
            RSum([t \in 1..Rows(B) |-> RMul(A[i][t], B[t][j])])]]
MatAdd(A, B) == [i \in 1..Rows(A) |-> [j \in 1..Cols(A) |-> RAdd(A[i][j], B[i][j])]]
MatSub(A, B) == [i \in 1..Rows(A) |-> [j \in 1..Cols(A) |-> RSub(A[i][j], B[i][j])]]
MatScale(c, A) == [i \in 1..Rows(A) |-> [j \in 1..Cols(A) |-> RMul(c, A[i][j])]]
\* np.sum(A, axis=0): the column sums, a 1-D array
SumAxis0(A) == [j \in 1..Cols(A) |-> RSum([i \in 1..Rows(A) |-> A[i][j]])]
\* np.square followed by a sum over all elements
SumSquares(A) == RSum([t \in 1..Len(Flat(A)) |-> RMul(Flat(A)[t], Flat(A)[t])])

\* numpy broadcasting of a (1, c) array against a 1-D array of length t
BroadcastOk(A, y) == Len(y) = 1 \/ Cols(A) = 1 \/ Len(y) = Cols(A)
BroadcastWidth(A, y) == IF Len(y) > Cols(A) THEN Len(y) ELSE Cols(A)
BRow(A, y, j) == IF Cols(A) = 1 THEN A[1][1] ELSE A[1][j]
BVec(y, j) == IF Len(y) = 1 THEN y[1] ELSE y[j]

(***************************************************************************)
(* Extended reals for cost values: a finite value is q + SUM c * ln(a)     *)
(* over the pairs <<a, c>> of ln; the other tags are IEEE inf / nan.       *)
(***************************************************************************)
Fin(q) == [tag |-> "fin", q |-> q, ln |-> {}]
PosInf == [tag |-> "+inf", q |-> R(0), ln |-> {}]
NegInf == [tag |-> "-inf", q |-> R(0), ln |-> {}]
NaN == [tag |-> "nan", q |-> R(0), ln |-> {}]

LnCoef(ln, a) ==
    IF \E p \in ln : p[1] = a THEN (CHOOSE p \in ln : p[1] = a)[2] ELSE R(0)
LnMerge(l1, l2) ==
    LET args == {p[1] : p \in l1 \cup l2}
        all == {<<a, RAdd(LnCoef(l1, a), LnCoef(l2, a))>> : a \in args}
    IN  {p \in all : p[2] # R(0)}
LnScale(c, ln) == {p \in {<<q[1], RMul(c, q[2])>> : q \in ln} : p[2] # R(0)}

\* np.log of a real number
ELog(a) ==
    IF RLt(a, R(0)) THEN NaN
    ELSE IF a = R(0) THEN NegInf
    ELSE IF a = R(1) THEN Fin(R(0))
    ELSE [tag |-> "fin", q |-> R(0), ln |-> {<<a, R(1)>>}]

\* c * v for a finite number c
EScale(c, v) ==
    IF v.tag = "nan" THEN NaN
    ELSE IF v.tag = "fin" THEN [tag |-> "fin", q |-> RMul(c, v.q), ln |-> LnScale(c, v.ln)]
    ELSE IF c = R(0) THEN NaN
    ELSE IF RGt(c, R(0)) THEN v
    ELSE IF v.tag = "+inf" THEN NegInf ELSE PosInf

EAdd(u, v) ==
    IF u.tag = "nan" \/ v.tag = "nan" THEN NaN
    ELSE IF u.tag = "fin" /\ v.tag = "fin"
         THEN [tag |-> "fin", q |-> RAdd(u.q, v.q), ln |-> LnMerge(u.ln, v.ln)]
    ELSE IF u.tag = "fin" THEN v
    ELSE IF v.tag = "fin" THEN u
    ELSE IF u.tag = v.tag THEN u
    ELSE NaN

\* np.sum of a 1-D array of extended reals
RECURSIVE ESumFrom(_, _, _)
ESumFrom(acc, s, t) == IF t > Len(s) THEN acc ELSE ESumFrom(EAdd(acc, s[t]), s, t + 1)
ESum(s) == ESumFrom(Fin(R(0)), s, 1)

\* np.nansum: NaN elements count as zero
NanToZero(s) == [t \in 1..Len(s) |-> IF s[t].tag = "nan" THEN Fin(R(0)) ELSE s[t]]
ENanSum(s) == ESum(NanToZero(s))

\* u >= v where both are finite with the same logarithm part, or equal
EGeq(u, v) ==
    \/ u = v
    \/ /\ u.tag = "fin" /\ v.tag = "fin" /\ u.ln = v.ln
       /\ ~RLt(u.q, v.q)

(***************************************************************************)
(* State.  The constructor arguments and the training data are fixed for   *)
(* a behaviour; layers and costs are the attributes fit / predict change.  *)
(***************************************************************************)
VARIABLES
    n_inputs, n_categories, n_hidden_layers, sizes, classification, epochs,
    learning_rate, lambda_, hidden_layers, final_layer,   \* self.* set by __init__
    layers,          \* self.layers: index -> [kind, weights, bias, output]
    costs,           \* self.costs (empty before the first fit)
    X, Y,            \* the arguments of fit / predict
    pc,              \* where the running call is
    e, i,            \* fit's epoch counter (from 0), position in zip(X, Y) / X (from 1)
    k, delta,        \* backward's loop variable and error signal
    Y_pred, result,  \* predict's list and its returned array
    outcome,         \* what the last call is doing or how it ended
    nCalls, nFits, nRaised,
    trace,           \* history: forward / backward calls of the last fit
    epochSum,        \* history: costs recorded by backward, added up per epoch
    bwdCalls,        \* history: layer backward invocations of the last training cycle
    fwdLayers,       \* history: the layers as the last training cycle's forward left them
    done,            \* history: the pairs whose forward and backward both completed
    ref,             \* history: layers0 trained, a whole cycle at a time, on the pairs of done
    refCosts,        \* history: the cost of each pair of done, from ref before its cycle
    atPredict,       \* history: parameters and cost log when the last predict began
    layers0          \* history: the layers as constructed

cfg == <<n_inputs, n_categories, n_hidden_layers, sizes, classification, epochs,
         learning_rate, lambda_, hidden_layers, final_layer>>
vars == <<cfg, layers, costs, X, Y, pc, e, i, k, delta, Y_pred, result, outcome,
          nCalls, nFits, nRaised, trace, epochSum, bwdCalls, fwdLayers, done,
          ref, refCosts, atPredict, layers0>>

(***************************************************************************)
(* Layers (layers.py, modelled from the layer contract).                   *)
(***************************************************************************)
\* the t-th draw of the seeded generator that initialises parameters: seed 0
\* gives zeros, seed 1 values in {-1, 0, 1}, seed 2 values in {-1/2, 0, 1/2}
Draw(seed, t) ==
    LET v == (seed * t) % 3
        unit == IF seed = 2 THEN Half ELSE R(1)
    IN  IF v = 2 THEN RNeg(unit) ELSE RMul(R(v), unit)

NewLayer(kind, in_dim, out_dim, seed, idx) ==
    [kind |-> kind,
     weights |-> [r \in 1..in_dim |-> [c \in 1..out_dim |-> Draw(seed, r + 2 * c + idx)]],
     bias |-> <<[c \in 1..out_dim |-> Draw(seed, c + idx + 1)]>>,
     output |-> <<>>]

\* Linear: output = input @ weights + bias
LayerForwardOk(layer, input) == MatMulOk(input, layer.weights)
LayerForward(layer, input) ==
    [layer EXCEPT !.output = MatAdd(MatMul(input, layer.weights), layer.bias)]

\* Linear backward: the in-place updates need the gradient's shape to be the weights'
LayerBackwardOk(layer, error, prevT) ==
    /\ MatMulOk(prevT, error)
    /\ Rows(prevT) = Rows(layer.weights)
    /\ Cols(error) = Cols(layer.weights)
LayerBackward(layer, error, prevT, lr, lam) ==
    LET grad == MatMul(prevT, error)
        step == MatScale(lr, MatAdd(grad, MatScale(lam, layer.weights)))
    IN  [layer |-> [layer EXCEPT
                       !.weights = MatSub(layer.weights, step),
                       !.bias = MatSub(layer.bias, MatScale(lr, <<SumAxis0(error)>>))],
         propagated |-> MatMul(error, Transpose(layer.weights))]

(***************************************************************************)
(* FFNN.__init__                                                           *)
(***************************************************************************)
Sizes(n_in, hidden, n_cat) == <<n_in>> \o hidden \o <<n_cat>>

\* the body of the construction loop for Python index j of sizes
BuildLayer(j, sz, hidden, final, n_cat, seed) ==
    IF j # Len(sz) - 1
    THEN NewLayer(hidden, sz[j + 1], sz[j + 2], seed, j + 1)
    ELSE NewLayer(final, n_cat, n_cat, seed, j + 1)

BuildLayers(sz, hidden, final, n_cat, seed) ==
    [idx \in 0..(Len(sz) - 1) |->
        IF idx = 0 THEN NewLayer("LinearLayer", 1, 1, seed, 0)
        ELSE BuildLayer(idx - 1, sz, hidden, final, n_cat, seed)]

(***************************************************************************)
(* FFNN.forward, cost, cost_with_regularization                            *)
(***************************************************************************)
\* Python list indexing: a negative index counts from the end
PyIdx(idx) == IF idx < 0 THEN idx + (n_hidden_layers + 2) ELSE idx

\* the loop of forward from layer j on; stops at the first layer that raises
RECURSIVE ForwardFrom(_, _)
ForwardFrom(ls, j) ==
    IF j > n_hidden_layers + 1 THEN [ok |-> TRUE, layers |-> ls]
    ELSE IF ~LayerForwardOk(ls[j], ls[j - 1].output) THEN [ok |-> FALSE, layers |-> ls]
    ELSE ForwardFrom([ls EXCEPT ![j] = LayerForward(ls[j], ls[j - 1].output)], j + 1)

\* x.reshape(1, -1) of a 1-D sample is the one-row matrix <<x>>
Forward(ls, x) == ForwardFrom([ls EXCEPT ![0].output = <<x>>], 1)

\* the elements of the broadcast of y_hat (one row) against y
Elems(y_hat, y) == 1..BroadcastWidth(y_hat, y)

cost(y_hat, y) ==
    LET m == Len(y_hat)
        nll == [j \in Elems(y_hat, y) |->
                   EAdd(EScale(BVec(y, j), ELog(BRow(y_hat, y, j))),
                        EScale(RSub(R(1), BVec(y, j)),
                               ELog(RSub(R(1), BRow(y_hat, y, j)))))]
        sq == [j \in Elems(y_hat, y) |->
                  Fin(RMul(RSub(BVec(y, j), BRow(y_hat, y, j)),
                           RSub(BVec(y, j), BRow(y_hat, y, j))))]
    IN  IF classification
        THEN EScale(RMul(R(-1), RInv(R(m))), ENanSum(nll))
        ELSE EScale(RInv(R(m)), ENanSum(sq))

RegularizedWeights_last(ls) == ls[n_hidden_layers + 1].weights
\* the weights the L2 term is computed from
RegularizedWeights(ls) == ls[1].weights

cost_with_regularization(ls, y_hat, y, lam) ==
    LET m == Len(y_hat)
        L2_regularization_cost ==
            RMul(RMul(lam, RInv(R(2 * m))), SumSquares(RegularizedWeights(ls)))
    IN  EAdd(cost(y_hat, y), Fin(L2_regularization_cost))

\* the cost backward records
BackwardCost(ls, y) ==
    LET L == n_hidden_layers + 1
    IN  IF lambda_ = R(0)
        THEN cost(ls[L].output, y)
        ELSE cost_with_regularization(ls, ls[L].output, y, lambda_)

\* delta = self.layers[L].output - y
Residual(y_hat, y) ==
    <<[j \in Elems(y_hat, y) |-> RSub(BRow(y_hat, y, j), BVec(y, j))]>>

(***************************************************************************)
(* Inputs: constructor arguments and training data.                        *)
(***************************************************************************)
\* the networks constructed: the arguments of FFNN(...) and the generator's seed.
\* Hidden layers are LinearLayer, whose arithmetic is exact; final_layer and
\* classification follow the repository's two set-ups (regression with a linear
\* final layer, classification with a sigmoid one).
Net(n_in, hidden, n_cat, seed, cls, lam) ==
    [n_inputs |-> n_in, hidden_sizes |-> hidden, n_categories |-> n_cat, seed |-> seed,
     classification |-> cls,
     final_layer |-> IF cls THEN "SigmoidLayer" ELSE "LinearLayer",
     learning_rate |-> R(1), lambda_ |-> lam]
Networks ==
    {Net(2, <<>>, 1, 0, FALSE, R(0)),
     Net(2, <<>>, 1, 1, TRUE, R(1)),
     Net(1, <<>>, 2, 1, FALSE, R(0)),
     Net(1, <<>>, 1, 1, FALSE, R(0)),
     Net(2, <<>>, 1, 2, TRUE, R(0)),
     Net(1, <<2>>, 1, 1, FALSE, R(0)),
     Net(2, <<2>>, 1, 1, FALSE, R(1)),
     Net(2, <<2>>, 2, 0, TRUE, R(0)),
     Net(1, <<2, 1>>, 1, 1, FALSE, R(0))}

Sample(p, w) == [j \in 1..w |-> IF (p + j) % 2 = 0 THEN R(1) ELSE R(0)]
Target(p, t) == [j \in 1..t |-> R(p % 2)]

\* n well-formed pairs, or one sample / target of the wrong width at position at
DataSet(n, fault, at, n_in, n_cat) ==
    [X |-> [p \in 1..n |-> Sample(p, IF fault = "x" /\ p = at THEN n_in + 1 ELSE n_in)],
     Y |-> [p \in 1..n |-> Target(p, IF fault = "y" /\ p = at THEN n_cat + 1 ELSE n_cat)]]

\* a target of the wrong width fails to broadcast only against two or more outputs
Faults(n_cat) == IF n_cat > 1 THEN {"x", "y"} ELSE {"x"}
DataSets(n_in, n_cat) ==
    {DataSet(n, "none", 0, n_in, n_cat) : n \in 0..MaxSamples}
    \cup UNION {{DataSet(n, f, at, n_in, n_cat) : f \in Faults(n_cat), at \in 1..n} :
                    n \in 1..MaxSamples}

NoArray == [shape |-> <<>>, data |-> <<>>]

Init ==
    /\ \E net \in Networks :
          /\ n_inputs = net.n_inputs
          /\ n_categories = net.n_categories
          /\ n_hidden_layers = Len(net.hidden_sizes)
          /\ classification = net.classification
          /\ sizes = Sizes(net.n_inputs, net.hidden_sizes, net.n_categories)
          /\ lambda_ = net.lambda_
          /\ learning_rate = net.learning_rate
          /\ hidden_layers = "LinearLayer"
          /\ final_layer = net.final_layer
          /\ layers = BuildLayers(sizes, hidden_layers, final_layer, n_categories, net.seed)
    /\ epochs \in 0..MaxEpochs
    /\ \E d \in DataSets(n_inputs, n_categories) : X = d.X /\ Y = d.Y
    /\ costs = <<>>
    /\ pc = "idle"
    /\ e = 0 /\ i = 1 /\ k = 0 /\ delta = <<>>
    /\ Y_pred = <<>> /\ result = NoArray
    /\ outcome = "constructed"
    /\ nCalls = 0 /\ nFits = 0 /\ nRaised = 0
    /\ trace = <<>> /\ epochSum = <<>> /\ bwdCalls = <<>> /\ done = <<>>
    /\ fwdLayers = layers
    /\ ref = layers /\ refCosts = <<>>
    /\ atPredict = [params |-> <<>>, costs |-> <<>>]
    /\ layers0 = layers

\* the trainable state of the network: every layer's weights and bias
Params(ls) == [idx \in DOMAIN ls |-> <<ls[idx].weights, ls[idx].bias>>]

\* the model follows a network while its parameters stay small
Numbers(A) == {Flat(A)[t] : t \in 1..Len(Flat(A))}
ParamsBounded(ls) ==
    \A idx \in DOMAIN ls : \A q \in Numbers(ls[idx].weights) \cup Numbers(ls[idx].bias) :
        Abs(q[1]) <= MaxMagnitude /\ q[2] <= MaxMagnitude

(***************************************************************************)
(* A training cycle as one function, for the history variables below.      *)
(***************************************************************************)
LastLayer == n_hidden_layers + 1
AllLinear(ls) == \A idx \in DOMAIN ls : ls[idx].kind = "LinearLayer"

\* one training cycle on (x, y) as a function of the layers: forward, then every
\* layer's backward from the last to the first
RECURSIVE BackFrom(_, _, _)
BackFrom(ls, kk, d) ==
    IF kk < 1 THEN ls
    ELSE LET r == LayerBackward(ls[kk], d, Transpose(ls[kk - 1].output),
                                learning_rate, lambda_)
         IN  BackFrom([ls EXCEPT ![kk] = r.layer], kk - 1, r.propagated)
Cycle(ls, x, y) ==
    LET f == Forward(ls, x).layers
    IN  BackFrom(f, LastLayer, Residual(f[LastLayer].output, y))

(***************************************************************************)
(* FFNN.fit                                                                *)
(***************************************************************************)
Min(a, b) == IF a < b THEN a ELSE b
\* the number of pairs zip(X, Y) yields
NPairs == Min(Len(X), Len(Y))

Raise_rollback(where, ls) ==
    /\ pc' = "idle"
    /\ outcome' = where
    /\ nRaised' = nRaised + 1
    /\ layers' = layers0

\* an exception leaves the running call: nothing catches it, and the layers keep
\* what was assigned before it (ls)
Raise(where, ls) ==
    /\ pc' = "idle"
    /\ outcome' = where
    /\ nRaised' = nRaised + 1
    /\ layers' = ls

FitNext_skipLast(ee, ii) ==
    IF ii + 1 < NPairs THEN [pc |-> "fit_forward", e |-> ee, i |-> ii + 1]
    ELSE IF ee + 1 < epochs THEN [pc |-> "fit_forward", e |-> ee + 1, i |-> 1]
    ELSE [pc |-> "fit_group", e |-> ee, i |-> ii]
\* where the double loop of fit goes after the pair at (ee, ii)
FitNext(ee, ii) ==
    IF ii < NPairs THEN [pc |-> "fit_forward", e |-> ee, i |-> ii + 1]
    ELSE IF ee + 1 < epochs THEN [pc |-> "fit_forward", e |-> ee + 1, i |-> 1]
    ELSE [pc |-> "fit_group", e |-> ee, i |-> ii]

FitBegin_reinit ==
    /\ pc = "idle"
    /\ nCalls < MaxCalls
    /\ nCalls' = nCalls + 1
    /\ costs' = <<>>
    /\ layers' = layers0
    /\ e' = 0 /\ i' = 1
    /\ pc' = IF epochs > 0 /\ NPairs > 0 THEN "fit_forward" ELSE "fit_group"
    /\ outcome' = "fitting"
    /\ trace' = <<>>
    /\ epochSum' = [ee \in 1..epochs |-> Fin(R(0))]
    /\ UNCHANGED <<cfg, X, Y, k, delta, Y_pred, result, nFits, nRaised,
                   bwdCalls, fwdLayers, done, ref, refCosts, atPredict, layers0>>

\* self.costs = [] and the entry into the loops
FitBegin ==
    /\ pc = "idle"
    /\ nCalls < MaxCalls
    /\ nCalls' = nCalls + 1
    /\ costs' = <<>>
    /\ e' = 0 /\ i' = 1
    /\ pc' = IF epochs > 0 /\ NPairs > 0 THEN "fit_forward" ELSE "fit_group"
    /\ outcome' = "fitting"
    /\ trace' = <<>>
    /\ epochSum' = [ee \in 1..epochs |-> Fin(R(0))]
    /\ UNCHANGED <<cfg, layers, X, Y, k, delta, Y_pred, result, nFits, nRaised,
                   bwdCalls, fwdLayers, done, ref, refCosts, atPredict, layers0>>

\* self.forward(x) for the current pair
FitForward ==
    /\ pc = "fit_forward"
    /\ ParamsBounded(layers)
    /\ trace' = Append(trace, [op |-> "forward", e |-> e, i |-> i, arg |-> X[i]])
    /\ bwdCalls' = <<>>
    /\ LET r == Forward(layers, X[i])
       IN  IF r.ok
           THEN /\ layers' = r.layers
                /\ pc' = "fit_backward"
                /\ fwdLayers' = r.layers
                /\ UNCHANGED <<outcome, nRaised>>
           ELSE /\ Raise("fit raised in forward", r.layers)
                /\ UNCHANGED fwdLayers
    /\ UNCHANGED <<cfg, costs, X, Y, e, i, k, delta, Y_pred, result, nCalls, nFits,
                   epochSum, done, ref, refCosts, atPredict, layers0>>

\* backward up to its loop: the residual and the recorded cost
FitBackward ==
    /\ pc = "fit_backward"
    /\ trace' = Append(trace, [op |-> "backward", e |-> e, i |-> i, arg |-> Y[i]])
    /\ LET L == n_hidden_layers + 1
       IN  IF BroadcastOk(layers[L].output, Y[i])
           THEN /\ delta' = Residual(layers[L].output, Y[i])
                /\ costs' = Append(costs, BackwardCost(layers, Y[i]))
                /\ epochSum' = [epochSum EXCEPT ![e + 1] = EAdd(@, BackwardCost(layers, Y[i]))]
                /\ k' = L
                /\ pc' = "backward_loop"
                /\ UNCHANGED <<layers, outcome, nRaised>>
           ELSE /\ Raise("fit raised in backward", layers)
                /\ UNCHANGED <<delta, costs, epochSum, k>>
    /\ UNCHANGED <<cfg, X, Y, e, i, Y_pred, result, nCalls, nFits, bwdCalls,
                   fwdLayers, done, ref, refCosts, atPredict, layers0>>

BackwardStop_inclusive == 0 - 1
\* range(L, 0, -1) stops before this value
BackwardStop == 0
BackwardPrev_same(kk) == PyIdx(kk)
\* the layer whose output is handed to layer kk's backward
BackwardPrev(kk) == PyIdx(kk - 1)

\* one iteration of backward's loop; after the last one fit moves on
BackwardLayer ==
    /\ pc = "backward_loop"
    /\ LET prevT == Transpose(layers[BackwardPrev(k)].output)
           nxt == FitNext(e, i)
       IN  IF LayerBackwardOk(layers[k], delta, prevT)
           THEN LET r == LayerBackward(layers[k], delta, prevT, learning_rate, lambda_)
                IN  /\ layers' = [layers EXCEPT ![k] = r.layer]
                    /\ delta' = r.propagated
                    /\ bwdCalls' = Append(bwdCalls,
                                          [k |-> k, error |-> delta, prevT |-> prevT,
                                           ret |-> r.propagated, y |-> Y[i]])
                    /\ k' = k - 1
                    /\ IF k - 1 > BackwardStop
                       THEN UNCHANGED <<pc, e, i, done, ref, refCosts>>
                       ELSE /\ pc' = nxt.pc /\ e' = nxt.e /\ i' = nxt.i
                            /\ done' = Append(done, i)
                            /\ ref' = Cycle(ref, X[i], Y[i])
                            /\ refCosts' = Append(refCosts,
                                   BackwardCost(Forward(ref, X[i]).layers, Y[i]))
                    /\ UNCHANGED <<outcome, nRaised>>
           ELSE /\ Raise("fit raised in backward", layers)
                /\ UNCHANGED <<delta, bwdCalls, k, e, i, done, ref, refCosts>>
    /\ UNCHANGED <<cfg, costs, X, Y, Y_pred, result, nCalls, nFits, trace, epochSum,
                   fwdLayers, atPredict, layers0>>

\* np.sum(np.array(costs).reshape((epochs, int(len(costs) / epochs))), axis=1)
GroupWidth(cs, ep) == Len(cs) \div ep
GroupOk(cs, ep) == ep # 0 /\ ep * GroupWidth(cs, ep) = Len(cs)
GroupByEpoch_columns(cs, ep) ==
    [r \in 1..ep |->
        ESum([t \in 1..GroupWidth(cs, ep) |-> cs[(t - 1) * ep + r]])]
GroupByEpoch(cs, ep) ==
    [r \in 1..ep |->
        ESum([t \in 1..GroupWidth(cs, ep) |-> cs[(r - 1) * GroupWidth(cs, ep) + t]])]

FitGroup ==
    /\ pc = "fit_group"
    /\ IF GroupOk(costs, epochs)
       THEN /\ costs' = GroupByEpoch(costs, epochs)
            /\ pc' = "idle"
            /\ outcome' = "fitted"
            /\ nFits' = nFits + 1
            /\ UNCHANGED <<layers, nRaised>>
       ELSE /\ Raise("fit raised in grouping", layers)
            /\ UNCHANGED <<costs, nFits>>
    /\ UNCHANGED <<cfg, X, Y, e, i, k, delta, Y_pred, result, nCalls,
                   trace, epochSum, bwdCalls, fwdLayers, done, ref, refCosts, atPredict, layers0>>

(***************************************************************************)
(* FFNN.predict                                                            *)
(***************************************************************************)
\* np.array of a list of equally shaped one-row outputs, as shape and flat data
ArrayOf(outs) ==
    LET RECURSIVE Cat(_)
        Cat(t) == IF t > Len(outs) THEN <<>> ELSE Flat(outs[t]) \o Cat(t + 1)
    IN  [shape |-> IF outs = <<>> THEN <<0>>
                   ELSE <<Len(outs), Rows(outs[1]), Cols(outs[1])>>,
         data |-> Cat(1)]

\* ndarray.squeeze(): the axes of length one are dropped
Squeeze(a) == [a EXCEPT !.shape = SelectSeq(a.shape, LAMBDA d : d # 1)]

\* array > 0.5, element-wise
Threshold(a) == [a EXCEPT !.data = [t \in 1..Len(a.data) |-> RGt(a.data[t], Half)]]

PredictResult(outs) ==
    IF classification THEN Threshold(Squeeze(ArrayOf(outs))) ELSE Squeeze(ArrayOf(outs))

PredictBegin_clearsCosts ==
    /\ pc = "idle"
    /\ nCalls < MaxCalls
    /\ nCalls' = nCalls + 1
    /\ Y_pred' = <<>>
    /\ i' = 1
    /\ pc' = IF Len(X) > 0 THEN "predict_forward" ELSE "predict_return"
    /\ outcome' = "predicting"
    /\ atPredict' = [params |-> Params(layers), costs |-> costs]
    /\ costs' = <<>>
    /\ UNCHANGED <<cfg, layers, X, Y, e, k, delta, result, nFits, nRaised,
                   trace, epochSum, bwdCalls, fwdLayers, done, ref, refCosts, layers0>>

PredictBegin ==
    /\ pc = "idle"
    /\ nCalls < MaxCalls
    /\ nCalls' = nCalls + 1
    /\ Y_pred' = <<>>
    /\ i' = 1
    /\ pc' = IF Len(X) > 0 THEN "predict_forward" ELSE "predict_return"
    /\ outcome' = "predicting"
    /\ atPredict' = [params |-> Params(layers), costs |-> costs]
    /\ UNCHANGED <<cfg, layers, costs, X, Y, e, k, delta, result, nFits, nRaised,
                   trace, epochSum, bwdCalls, fwdLayers, done, ref, refCosts, layers0>>

PredictForward ==
    /\ pc = "predict_forward"
    /\ ParamsBounded(layers)
    /\ LET r == Forward(layers, X[i])
       IN  IF r.ok
           THEN /\ layers' = r.layers
                /\ Y_pred' = Append(Y_pred, r.layers[PyIdx(-1)].output)
                /\ i' = i + 1
                /\ pc' = IF i < Len(X) THEN "predict_forward" ELSE "predict_return"
                /\ UNCHANGED <<outcome, nRaised>>
           ELSE /\ Raise("predict raised", r.layers)
                /\ UNCHANGED <<Y_pred, i>>
    /\ UNCHANGED <<cfg, costs, X, Y, e, k, delta, result, nCalls, nFits,
                   trace, epochSum, bwdCalls, fwdLayers, done, ref, refCosts, atPredict, layers0>>

PredictReturn ==
    /\ pc = "predict_return"
    /\ result' = PredictResult(Y_pred)
    /\ pc' = "idle"
    /\ outcome' = "predicted"
    /\ UNCHANGED <<cfg, layers, costs, X, Y, e, i, k, delta, Y_pred, nCalls, nFits,
                   nRaised, trace, epochSum, bwdCalls, fwdLayers, done, ref, refCosts,
                   atPredict, layers0>>

Next ==
    \/ FitBegin
    \/ FitForward
    \/ FitBackward
    \/ BackwardLayer
    \/ FitGroup
    \/ PredictBegin
    \/ PredictForward
    \/ PredictReturn

Spec == Init /\ [][Next]_vars

(***************************************************************************)
(* Reference definitions the properties compare the run against.           *)
(***************************************************************************)
\* the order in which ep epochs visit n pairs
Visits(ep, n) == [t \in 1..(ep * n) |-> ((t - 1) % n) + 1]

\* the calls fit makes over ep epochs of the pairs of X and Y
Schedule(ep) ==
    [t \in 1..(2 * ep * Len(X)) |->
        LET c == (t - 1) \div 2
            ee == c \div Len(X)
            p == (c % Len(X)) + 1
        IN  IF t % 2 = 1
            THEN [op |-> "forward", e |-> ee, i |-> p, arg |-> X[p]]
            ELSE [op |-> "backward", e |-> ee, i |-> p, arg |-> Y[p]]]

IsPrefix(s, t) == Len(s) <= Len(t) /\ \A j \in 1..Len(s) : s[j] = t[j]

\* the first pair fit cannot process, 0 if there is none
BadPair(p) == Len(X[p]) # n_inputs \/ (n_categories > 1 /\ Len(Y[p]) \notin {1, n_categories})
FirstBad ==
    IF \E p \in 1..NPairs : BadPair(p)
    THEN CHOOSE p \in 1..NPairs : BadPair(p) /\ \A q \in 1..(p - 1) : ~BadPair(q)
    ELSE 0

(***************************************************************************)
(* Properties.                                                             *)
(***************************************************************************)

\* C1: when fit returns, the cost log has exactly `epochs` entries, and entry e
\* is the sum of the per-sample costs backward recorded during epoch e, whatever
\* the log held before the call.
C1_CostLogPerEpoch ==
    outcome = "fitted" =>
        /\ Len(costs) = epochs
        /\ \A ee \in 1..epochs : costs[ee] = epochSum[ee]

\* a second fit of two epochs over two pairs returned, with different epoch costs
C1_Witness ==
    /\ outcome = "fitted" /\ nFits = 2
    /\ epochs = 2 /\ Len(X) = 2
    /\ costs[1] # costs[2]

\* C2: fit makes exactly epochs * len(X) forward/backward cycles: in every epoch
\* the pairs in input order, forward on the sample then backward on its target,
\* and no backward without the forward of the same sample right before it.
C2_FitSchedule ==
    /\ IsPrefix(trace, Schedule(epochs))
    /\ outcome = "fitted" => trace = Schedule(epochs) /\ Len(trace) = 2 * epochs * Len(X)
    /\ \A t \in 1..Len(trace) :
          trace[t].op = "backward" =>
              /\ t > 1
              /\ trace[t - 1].op = "forward"
              /\ trace[t - 1].e = trace[t].e /\ trace[t - 1].i = trace[t].i

\* a fit of two epochs over two pairs returned after its eight calls
C2_Witness ==
    /\ outcome = "fitted"
    /\ epochs = 2 /\ Len(X) = 2
    /\ Len(trace) = 8

\* C3: one backward invokes the layers' backward once each in the order
\* L, L-1, ..., 1; layer k receives the delta layer k+1 returned (output - y for
\* layer L) and the output of layer k-1 as the forward pass left it; layer 0's
\* backward is never invoked and its weights and bias never change.
C3_BackwardOrder ==
    /\ \A t \in 1..Len(bwdCalls) :
          /\ bwdCalls[t].k = LastLayer - t + 1
          /\ bwdCalls[t].k >= 1
          /\ bwdCalls[t].error =
                IF t = 1 THEN Residual(fwdLayers[LastLayer].output, bwdCalls[t].y)
                ELSE bwdCalls[t - 1].ret
          /\ bwdCalls[t].prevT = Transpose(fwdLayers[bwdCalls[t].k - 1].output)
    /\ Len(bwdCalls) <= LastLayer
    /\ (pc # "backward_loop" /\ bwdCalls # <<>>) => Len(bwdCalls) = LastLayer
    /\ pc = "backward_loop" => k = LastLayer - Len(bwdCalls)
    /\ layers[0].weights = layers0[0].weights
    /\ layers[0].bias = layers0[0].bias

\* a backward over three trainable layers completed with a nonzero delta reaching layer 1
C3_Witness ==
    /\ pc # "backward_loop"
    /\ LastLayer = 3 /\ Len(bwdCalls) = 3
    /\ \E q \in Numbers(bwdCalls[3].error) : q # R(0)
    /\ nFits >= 1

\* C4: construction builds n + 2 layers: a placeholder Linear(1,1), then one layer
\* per consecutive pair of sizes, the hidden variant for every pair but the last
\* and the final variant for the last pair, widths chaining from layer to layer.
C4_Construction ==
    /\ DOMAIN layers0 = 0..(n_hidden_layers + 1)
    /\ Len(sizes) = n_hidden_layers + 2
    /\ layers0[0].kind = "LinearLayer"
    /\ Rows(layers0[0].weights) = 1 /\ Cols(layers0[0].weights) = 1
    /\ \A idx \in 1..(n_hidden_layers + 1) :
          /\ Rows(layers0[idx].weights) = sizes[idx]
          /\ Cols(layers0[idx].weights) = sizes[idx + 1]
          /\ layers0[idx].kind = IF idx = n_hidden_layers + 1 THEN final_layer
                                 ELSE hidden_layers
    /\ \A idx \in 1..n_hidden_layers :
          Cols(layers0[idx].weights) = Rows(layers0[idx + 1].weights)

\* C5: a later fit empties the cost log but does not reinitialize any layer: it
\* trains on from the parameters the previous fit left, so k fits of E epochs
\* apply the updates of one fit of k*E epochs, and the log holds only the last
\* call's E entries.
C5_RepeatedFit ==
    (outcome = "fitted" /\ nRaised = 0) =>
        LET n == Len(X)
        IN  /\ done = Visits(nFits * epochs, n)
            /\ Params(layers) = Params(ref)
            /\ Len(costs) = epochs
            /\ \A ee \in 1..epochs :
                  costs[ee] = ESum([p \in 1..n |->
                                       refCosts[((nFits - 1) * epochs + ee - 1) * n + p]])

\* a second fit returned whose first pair cost something else than in the first fit
C5_Witness ==
    /\ outcome = "fitted" /\ nFits = 2 /\ nRaised = 0
    /\ epochs >= 1 /\ Len(X) >= 2
    /\ refCosts[epochs * Len(X) + 1] # refCosts[1]
    /\ Params(layers) # Params(layers0)

\* the outputs forward gives for the samples of X with the layers as they are
OutputsNow == [p \in 1..Len(X) |-> Forward(layers, X[p]).layers[LastLayer].output]

\* C6: predict runs forward once per sample in order and returns one result per
\* sample, with the row count of X; with classification set every element is the
\* boolean output > 0.5, otherwise the raw outputs are returned.
C6_PredictPerSample ==
    outcome = "predicted" =>
        /\ Len(Y_pred) = Len(X)
        /\ Y_pred = OutputsNow
        /\ result.shape # <<>>
        /\ result.shape[1] = Len(X)
        /\ classification =>
              \A t \in 1..Len(result.data) :
                  result.data[t] = RGt(ArrayOf(Y_pred).data[t], Half)
        /\ ~classification => result.data = ArrayOf(Y_pred).data

\* the error signal layer kk receives in the cycle whose forward left fwdLayers
RECURSIVE DeltaAt(_, _)
DeltaAt(kk, y) ==
    IF kk = LastLayer THEN Residual(fwdLayers[LastLayer].output, y)
    ELSE MatMul(DeltaAt(kk + 1, y), Transpose(fwdLayers[kk + 1].weights))

\* C7: with only Linear layers and lambda_ = 0, one forward and one backward on a
\* sample change each layer's weights by exactly -eta * (prev_output.T @ delta),
\* delta being output - y for the last layer and the later layer's delta times
\* its weights before the update, transposed, for each earlier layer.
C7_LinearStep ==
    (/\ lambda_ = R(0) /\ AllLinear(layers)
     /\ pc # "backward_loop" /\ Len(bwdCalls) = LastLayer) =>
        \A kk \in 1..LastLayer :
            layers[kk].weights =
                MatSub(fwdLayers[kk].weights,
                       MatScale(learning_rate,
                                MatMul(Transpose(fwdLayers[kk - 1].output),
                                       DeltaAt(kk, bwdCalls[1].y))))

\* a step with lambda_ = 0 changed the weights of the first of several layers
C7_Witness ==
    /\ lambda_ = R(0) /\ AllLinear(layers)
    /\ pc # "backward_loop" /\ Len(bwdCalls) = LastLayer
    /\ LastLayer >= 2
    /\ layers[1].weights # fwdLayers[1].weights

\* C8: backward records cost + lambda_/(2m) * (sum of squares of layer 1's
\* weights) when lambda_ is nonzero and the plain cost when it is 0; for
\* lambda_ > 0 the regularized cost is >= the plain cost.
C8_RecordedCost ==
    (pc = "backward_loop" /\ k = LastLayer) =>
        LET y_hat == layers[LastLayer].output
            plain == cost(y_hat, Y[i])
            penalty == RMul(RMul(lambda_, RInv(R(2 * Len(y_hat)))),
                            SumSquares(layers[1].weights))
            recorded == costs[Len(costs)]
        IN  /\ lambda_ = R(0) => recorded = plain
            /\ lambda_ # R(0) => recorded = EAdd(plain, Fin(penalty))
            /\ RGt(lambda_, R(0)) =>
                  /\ EGeq(cost_with_regularization(layers, y_hat, Y[i], lambda_), plain)
                  /\ ~RLt(penalty, R(0))

\* a regularized cost was recorded for a network whose layer 1 and last layer differ
C8_Witness ==
    /\ pc = "backward_loop" /\ k = LastLayer
    /\ RGt(lambda_, R(0)) /\ LastLayer >= 2
    /\ SumSquares(layers[1].weights) # R(0)
    /\ SumSquares(layers[1].weights) # SumSquares(layers[LastLayer].weights)
    /\ costs[Len(costs)] # cost(layers[LastLayer].output, Y[i])

\* C9: when forward or backward fails on a pair during fit, fit ends there: the
\* calls made are the schedule up to the failing call, the cost log is left as
\* the per-sample costs recorded so far (not grouped), and the updates of the
\* pairs already processed stay.
C9_FitAborts ==
    outcome \in {"fit raised in forward", "fit raised in backward"} =>
        LET b == FirstBad
            made == 2 * (b - 1) + (IF outcome = "fit raised in forward" THEN 1 ELSE 2)
            earlier == Len(done) - (b - 1)
        IN  /\ pc = "idle"
            /\ b > 0
            /\ trace = SubSeq(Schedule(epochs), 1, made)
            /\ earlier >= 0
            /\ \A t \in 1..(b - 1) : done[earlier + t] = t
            /\ Len(costs) = b - 1
            /\ \A t \in 1..(b - 1) : costs[t] = refCosts[earlier + t]
            /\ Params(layers) = Params(ref)

\* fit of two epochs failed at the second pair after the first pair changed the parameters
C9_Witness ==
    /\ outcome \in {"fit raised in forward", "fit raised in backward"}
    /\ FirstBad = 2 /\ epochs = 2
    /\ Len(costs) = 1
    /\ Params(layers) # Params(layers0)

\* C10: predict changes no layer's weights or bias and not the cost log, so its
\* result is a function of the parameters and X alone, and the parameters after
\* any mix of fit and predict calls are those the fit calls alone produce.
C10_PredictFrame ==
    /\ outcome \in {"predicting", "predicted", "predict raised"} =>
          /\ Params(layers) = atPredict.params
          /\ costs = atPredict.costs
    /\ outcome = "predicted" => result = PredictResult(OutputsNow)
    /\ pc = "idle" => Params(layers) = Params(ref)

\* a predict ran between two fits: it began with the first fit's cost log, gave
\* a result, and the second fit then trained on
C10_Witness ==
    /\ outcome = "fitted" /\ nRaised = 0
    /\ nFits = 2 /\ nCalls = 3
    /\ Len(X) >= 2
    /\ atPredict.costs # <<>>
    /\ result # NoArray
    /\ Params(layers) # atPredict.params

====
